---- MODULE Spec2Model ----
(***************************************************************************)
(* Model of the stock-analysis feature pipeline:                           *)
(*   - loaders/base.py   DataLoader.load(): fetch asset and benchmark,     *)
(*     derive forward_return and per-horizon return/volume features,       *)
(*     left-join the benchmark_ columns, interpolate, drop inf/NaN rows;   *)
(*   - indicators/indicator.py: the Volatility, MACD, RSI and Bollinger    *)
(*     stages over a table, with the copy-vs-in-place switch of            *)
(*     indicators/base.py.                                                 *)
(*                                                                         *)
(* Numbers.  A cell is a record [k, n, d, a].  k = "rat" is the exact      *)
(* rational n/d (d > 0, lowest terms); "nan", "pinf", "ninf" are the IEEE  *)
(* special values, combined by the IEEE rules (x/0, inf-inf, inf/inf,      *)
(* 0*inf).  Rounding of float64 and the sign of zero are not modelled.     *)
(* Irrational results are kept as canonical terms: "plusrt"/"minusrt" is   *)
(* n/d +/- sqrt(a[1]) (rolling standard deviation of Close and the         *)
(* Bollinger bands), "stdlog" is the sample standard deviation of          *)
(* log1p over the window a (volatility).                                   *)
(*                                                                         *)
(* Tables.  A DataFrame is [idx, cols, val]: idx the timestamps in row     *)
(* order, cols the column names in column order, val[j] the cells of       *)
(* column cols[j].  A column name is the tuple of the pieces the f-string  *)
(* builds it from, <<"benchmark_", "return_", "1">> for                    *)
(* "benchmark_return_1".  Objects live in heap; an object is named by its  *)
(* position in heap, so aliasing and in-place mutation are visible.        *)
(***************************************************************************)
EXTENDS Integers, Sequences, FiniteSets, TLC

\* ------------------------------------------------------------------ bounds

\* Timestamps a provider table may carry are 1..MaxT.
MaxT == 3
\* load() is called at most MaxRuns times on the same configuration.
MaxRuns == 2
\* Tables handed to the indicator stages have 2..MaxLen rows.
MaxLen == 2
\* At most MaxApply indicator applications in one behaviour.
MaxApply == 2

\* ----------------------------------------------------------------- numbers

RECURSIVE Gcd(_, _)
Gcd(a, b) == IF b = 0 THEN a ELSE Gcd(b, a % b)

AbsInt(n) == IF n < 0 THEN -n ELSE n

\* The rational n/d, d # 0, in lowest terms with a positive denominator.
Rat(n, d) ==
    LET s == IF d < 0 THEN -1 ELSE 1
        g == Gcd(AbsInt(n), AbsInt(d))
    IN  [k |-> "rat", n |-> (s * n) \div g, d |-> (s * d) \div g, a |-> <<>>]

Int2Cell(n) == Rat(n, 1)
NaN  == [k |-> "nan",  n |-> 0, d |-> 1, a |-> <<>>]
PInf == [k |-> "pinf", n |-> 0, d |-> 1, a |-> <<>>]
NInf == [k |-> "ninf", n |-> 0, d |-> 1, a |-> <<>>]
Zero == Int2Cell(0)
One  == Int2Cell(1)

IsNaN(x) == x.k = "nan"
IsInf(x) == x.k \in {"pinf", "ninf"}
IsRat(x) == x.k = "rat"
IsFinite(x) == x.k \in {"rat", "plusrt", "minusrt", "stdlog"}

\* -1, 0, 1; a zero counts as +0 where IEEE needs the sign of a zero.
Sign(x) ==
    CASE x.k = "pinf" -> 1
      [] x.k = "ninf" -> -1
      [] OTHER -> IF x.n > 0 THEN 1 ELSE IF x.n < 0 THEN -1 ELSE 0

InfOf(s) == IF s < 0 THEN NInf ELSE PInf

Neg(x) ==
    CASE x.k = "nan"  -> NaN
      [] x.k = "pinf" -> NInf
      [] x.k = "ninf" -> PInf
      [] OTHER -> Rat(-x.n, x.d)

Add(x, y) ==
    IF IsNaN(x) \/ IsNaN(y) THEN NaN
    ELSE IF IsInf(x) /\ IsInf(y) THEN (IF x = y THEN x ELSE NaN)
    ELSE IF IsInf(x) THEN x
    ELSE IF IsInf(y) THEN y
    ELSE LET g == Gcd(x.d, y.d)
             l == (x.d \div g) * y.d
         IN  Rat(x.n * (l \div x.d) + y.n * (l \div y.d), l)

Sub(x, y) == Add(x, Neg(y))

Mul(x, y) ==
    IF IsNaN(x) \/ IsNaN(y) THEN NaN
    ELSE IF IsInf(x) \/ IsInf(y)
         THEN (IF Sign(x) = 0 \/ Sign(y) = 0 THEN NaN ELSE InfOf(Sign(x) * Sign(y)))
    ELSE LET g1 == Gcd(AbsInt(x.n), y.d)
             g2 == Gcd(AbsInt(y.n), x.d)
         IN  Rat((x.n \div g1) * (y.n \div g2), (x.d \div g2) * (y.d \div g1))

Div(x, y) ==
    IF IsNaN(x) \/ IsNaN(y) THEN NaN
    ELSE IF IsInf(x) /\ IsInf(y) THEN NaN
    ELSE IF IsInf(x) THEN InfOf(Sign(x) * (IF Sign(y) < 0 THEN -1 ELSE 1))
    ELSE IF IsInf(y) THEN Zero
    ELSE IF y.n = 0 THEN (IF x.n = 0 THEN NaN ELSE InfOf(Sign(x)))
    ELSE Mul(x, Rat(y.d, y.n))

Abs(x) ==
    CASE x.k = "nan" -> NaN
      [] IsInf(x) -> PInf
      [] OTHER -> Rat(AbsInt(x.n), x.d)

\* x > 0 and x < 0 as numpy compares: False on NaN.
GtZero(x) == ~IsNaN(x) /\ Sign(x) > 0
LtZero(x) == ~IsNaN(x) /\ Sign(x) < 0

\* ------------------------------------------------------------------ series

Range(s) == {s[i] : i \in DOMAIN s}

\* Series.pct_change(h): s / s.shift(h) - 1.  The forward fill pct_change
\* applies first is the identity on the NaN-free series it is given here.
PctChange(s, h) ==
    [i \in 1..Len(s) |-> IF i <= h THEN NaN ELSE Sub(Div(s[i], s[i - h]), One)]

\* Series.shift(-1): row i takes row i+1, the last row is NaN.
ShiftBack(s) ==
    [i \in 1..Len(s) |-> IF i < Len(s) THEN s[i + 1] ELSE NaN]

\* numpy.interp between the valid neighbours (l, yl) and (r, yr) of row i,
\* with its retry from the right end when the first form is NaN.
InterpBetween(i, l, yl, r, yr) ==
    LET slope == Div(Sub(yr, yl), Int2Cell(r - l))
        first == Add(Mul(slope, Int2Cell(i - l)), yl)
        second == Add(Mul(slope, Int2Cell(i - r)), yr)
    IN  IF ~IsNaN(first) THEN first
        ELSE IF ~IsNaN(second) THEN second
        ELSE IF yl = yr THEN yl
        ELSE NaN

\* interpolate with the default limit_direction="forward": the rows before
\* the first valid value stay NaN.
InterpolateForward(s) ==
    LET valid == {i \in 1..Len(s) : ~IsNaN(s[i])}
        lo(i) == {j \in valid : j < i}
        hi(i) == {j \in valid : j > i}
        max(S) == CHOOSE m \in S : \A j \in S : j <= m
        min(S) == CHOOSE m \in S : \A j \in S : m <= j
    IN  [i \in 1..Len(s) |->
            IF i \in valid \/ lo(i) = {} THEN s[i]
            ELSE IF hi(i) = {} THEN s[max(lo(i))]
            ELSE InterpBetween(i, max(lo(i)), s[max(lo(i))],
                               min(hi(i)), s[min(hi(i))])]

\* Series.interpolate(method="linear", limit_direction="both"): every NaN is
\* filled; rows before the first valid value take it, rows after the last
\* valid value take that one; a column with no valid value stays NaN.
Interpolate(s) ==
    LET valid == {i \in 1..Len(s) : ~IsNaN(s[i])}
        lo(i) == {j \in valid : j < i}
        hi(i) == {j \in valid : j > i}
        max(S) == CHOOSE m \in S : \A j \in S : j <= m
        min(S) == CHOOSE m \in S : \A j \in S : m <= j
    IN  [i \in 1..Len(s) |->
            IF i \in valid \/ valid = {} THEN s[i]
            ELSE IF lo(i) = {} THEN s[min(hi(i))]
            ELSE IF hi(i) = {} THEN s[max(lo(i))]
            ELSE InterpBetween(i, max(lo(i)), s[max(lo(i))],
                               min(hi(i)), s[min(hi(i))])]

\* replace([inf, -inf], nan) on one column.
ReplaceInf(s) == [i \in 1..Len(s) |-> IF IsInf(s[i]) THEN NaN ELSE s[i]]

\* ------------------------------------------------------------------ tables

\* Column names, as the pieces the source builds them from.
Open == <<"Open">>
High == <<"High">>
Low == <<"Low">>
Close == <<"Close">>
Volume == <<"Volume">>
forward_return == <<"forward_return">>
return_(i) == <<"return_", ToString(i)>>
volume_(i) == <<"volume_", ToString(i)>>
benchmark_return_(i) == <<"benchmark_", "return_", ToString(i)>>
benchmark_volume_(i) == <<"benchmark_", "volume_", ToString(i)>>

NRows(t) == Len(t.idx)
HasColumn(t, name) == \E j \in 1..Len(t.cols) : t.cols[j] = name
ColumnPos(t, name) == CHOOSE j \in 1..Len(t.cols) : t.cols[j] = name

\* df[name]
Column(t, name) == t.val[ColumnPos(t, name)]

\* df[name] = s: an existing column is overwritten where it stands, a new
\* one is appended as the last column.
SetColumn(t, name, s) ==
    IF HasColumn(t, name)
    THEN [t EXCEPT !.val[ColumnPos(t, name)] = s]
    ELSE [t EXCEPT !.cols = Append(@, name), !.val = Append(@, s)]

\* The rows of t at the positions keep (an increasing sequence).
TakeRows(t, keep) ==
    [idx |-> [p \in 1..Len(keep) |-> t.idx[keep[p]]],
     cols |-> t.cols,
     val |-> [j \in 1..Len(t.cols) |->
                 [p \in 1..Len(keep) |-> t.val[j][keep[p]]]]]

\* ---------------------------------------------------------------- provider

Symbols == {"AST", "BMK"}
PricePaths == {"rising", "zigzag"}
VolumePaths == {"constant", "gap", "halted"}

\* Close of a symbol's bar at timestamp t: strictly positive.
Price(path, t) ==
    CASE path = "rising" -> t
      [] path = "zigzag" -> 1 + (t % 2)
      [] path = "falling" -> MaxT + 2 - t

\* Volume of the bar at timestamp t; "gap" has one bar with no trades,
\* "halted" has none with any.
Vol(path, t) ==
    CASE path = "constant" -> 2
      [] path = "gap" -> IF t = 2 THEN 0 ELSE 1
      [] path = "halted" -> 0

\* The table a provider returns: columns Open, High, Low, Close, Volume
\* indexed by strictly increasing timestamps.
OHLCV(idx, ppath, vpath) ==
    LET close == [p \in 1..Len(idx) |-> Int2Cell(Price(ppath, idx[p]))]
        volume == [p \in 1..Len(idx) |-> Int2Cell(Vol(vpath, idx[p]))]
    IN  [idx |-> idx,
         cols |-> <<Open, High, Low, Close, Volume>>,
         val |-> <<close, close, close, close, volume>>]

\* The increasing sequence of the members of the set S of timestamps.
RECURSIVE Sorted(_)
Sorted(S) ==
    IF S = {} THEN <<>>
    ELSE LET m == CHOOSE x \in S : \A y \in S : y <= x
         IN  Append(Sorted(S \ {m}), m)

\* Asset histories are 1..n; a benchmark may lack or add timestamps.
AssetTables ==
    {OHLCV([p \in 1..n |-> p], pp, vp) :
        n \in 1..MaxT, pp \in PricePaths, vp \in VolumePaths}
BenchmarkTables ==
    {OHLCV(Sorted(S), "falling", vp) :
        S \in (SUBSET (1..MaxT)) \ {{}}, vp \in {"constant", "gap"}}

\* Horizon sets a loader is configured with.
HorizonSets == {<<1>>, <<1, 2>>}

\* "fresh": every download builds a new table; "cached": the stub hands back
\* the same table object on every download of a symbol.
ProviderModes == {"fresh", "cached"}

VARIABLES
    heap,          \* the table objects, by identity
    provider,      \* the Provider stub: [mode, data, cache]
    self,          \* the DataLoader: [asset, benchmark_asset, timeframes]
    pc,            \* where load() stands
    run,           \* number of load() calls begun
    df,            \* load()'s local df (an object id, 0: unbound)
    df_benchmark,  \* load()'s local df_benchmark
    calls,         \* provider.download calls of the current load()
    steps,         \* the statements of load() executed in the current call
    merged,        \* value of df right after the merge, before cleaning
    ret,           \* the object each finished load() returned
    returned,      \* the table each finished load() returned, as returned
    applied,       \* the indicator applications so far, oldest first
    before         \* value of the argument table before the last of them

vars == <<heap, provider, self, pc, run, df, df_benchmark, calls, steps,
          merged, ret, returned, applied, before>>

NoTable == [idx |-> <<>>, cols |-> <<>>, val |-> <<>>]

indVars == <<applied, before>>
loaderVars == <<provider, self, pc, run, df, df_benchmark, calls, steps,
                merged, ret, returned>>

Init ==
    /\ heap = <<>>
    /\ \E a \in AssetTables, tf \in HorizonSets, m \in ProviderModes :
          \/ /\ self = [asset |-> "AST", benchmark_asset |-> "AST",
                        timeframes |-> tf]
             /\ provider = [mode |-> m, data |-> [s \in Symbols |-> a],
                            cache |-> [s \in Symbols |-> 0]]
          \/ \E b \in BenchmarkTables :
                /\ self = [asset |-> "AST", benchmark_asset |-> "BMK",
                           timeframes |-> tf]
                /\ provider = [mode |-> m,
                               data |-> [s \in Symbols |->
                                            IF s = "AST" THEN a ELSE b],
                               cache |-> [s \in Symbols |-> 0]]
    /\ pc = "idle"
    /\ run = 0
    /\ df = 0
    /\ df_benchmark = 0
    /\ calls = <<>>
    /\ steps = <<>>
    /\ merged = NoTable
    /\ ret = <<>>
    /\ returned = <<>>
    /\ applied = <<>>
    /\ before = NoTable

\* The caller invokes load().
Load ==
    /\ pc \in {"idle", "done"}
    /\ run < MaxRuns
    /\ run' = run + 1
    /\ pc' = "fetch_asset"
    /\ df' = 0
    /\ df_benchmark' = 0
    /\ calls' = <<>>
    /\ steps' = <<>>
    /\ merged' = NoTable
    /\ UNCHANGED <<heap, provider, self, ret, returned, indVars>>

\* provider.download(symbol) returns a table: the cached object when the
\* stub keeps one, a newly built table otherwise.  next is the position load()
\* moves to; the call and the object it returned are logged in calls.
DownloadReturns(symbol, next) ==
    LET hit == provider.mode = "cached" /\ provider.cache[symbol] # 0
        id == IF hit THEN provider.cache[symbol] ELSE Len(heap) + 1
    IN  /\ heap' = IF hit THEN heap ELSE Append(heap, provider.data[symbol])
        /\ provider' = IF provider.mode = "cached"
                       THEN [provider EXCEPT !.cache[symbol] = id]
                       ELSE provider
        /\ calls' = Append(calls, [symbol |-> symbol, ok |-> TRUE, obj |-> id])
        /\ pc' = next

\* A loader that calls download again after a failure (up to three calls).
DownloadRetries(symbol) ==
    /\ calls' = Append(calls, [symbol |-> symbol, ok |-> FALSE, obj |-> 0])
    /\ pc' = IF Len(calls) < 2 THEN pc ELSE "raised"
    /\ UNCHANGED <<heap, provider>>

\* provider.download(symbol) raises: the exception leaves load().
DownloadRaises(symbol) ==
    /\ calls' = Append(calls, [symbol |-> symbol, ok |-> FALSE, obj |-> 0])
    /\ pc' = "raised"
    /\ UNCHANGED <<heap, provider>>

\* df = self._download(self.asset)
DownloadAsset ==
    /\ pc = "fetch_asset"
    /\ \/ /\ DownloadReturns(self.asset, "fetch_benchmark")
          /\ df' = calls'[Len(calls')].obj
       \/ /\ DownloadRaises(self.asset)
          /\ UNCHANGED df
    /\ steps' = Append(steps, "download_asset")
    /\ UNCHANGED <<self, run, df_benchmark, merged, ret, returned, indVars>>

\* df_benchmark = self._download(self.benchmark_asset)
DownloadBenchmark ==
    /\ pc = "fetch_benchmark"
    /\ \/ /\ DownloadReturns(self.benchmark_asset, "target")
          /\ df_benchmark' = calls'[Len(calls')].obj
       \/ /\ DownloadRaises(self.benchmark_asset)
          /\ UNCHANGED df_benchmark
    /\ steps' = Append(steps, "download_benchmark")
    /\ UNCHANGED <<self, run, df, merged, ret, returned, indVars>>

\* The backward return: pct_change() without the shift(-1).
ForwardReturnUnshifted(t) == PctChange(Column(t, Close), 1)

\* df["Close"].pct_change().shift(-1)
ForwardReturn(t) == ShiftBack(PctChange(Column(t, Close), 1))

\* df["forward_return"] = df["Close"].pct_change().shift(-1)
DeriveTarget ==
    /\ pc = "target"
    /\ heap' = [heap EXCEPT ![df] = SetColumn(@, forward_return, ForwardReturn(@))]
    /\ pc' = "features"
    /\ steps' = Append(steps, "target")
    /\ UNCHANGED <<provider, self, run, df, df_benchmark, calls, merged, ret, returned,
                   indVars>>

\* One pass of the loop body for horizon i, on the objects a and b of h
\* (which may be the same object).
FeatureStep(h, a, b, i) ==
    LET h1 == [h EXCEPT ![a] = SetColumn(@, return_(i),
                                         PctChange(Column(@, Close), i))]
        h2 == [h1 EXCEPT ![a] = SetColumn(@, volume_(i),
                                          PctChange(Column(@, Volume), i))]
        h3 == [h2 EXCEPT ![b] = SetColumn(@, benchmark_return_(i),
                                          PctChange(Column(@, Close), i))]
    IN  [h3 EXCEPT ![b] = SetColumn(@, benchmark_volume_(i),
                                    PctChange(Column(@, Volume), i))]

RECURSIVE FeatureLoop(_, _, _, _, _)
FeatureLoop(h, a, b, tf, k) ==
    IF k > Len(tf) THEN h
    ELSE FeatureLoop(FeatureStep(h, a, b, tf[k]), a, b, tf, k + 1)

\* for i in self.timeframes: ...
DeriveFeatures ==
    /\ pc = "features"
    /\ heap' = FeatureLoop(heap, df, df_benchmark, self.timeframes, 1)
    /\ pc' = "merge"
    /\ steps' = Append(steps, "features")
    /\ UNCHANGED <<provider, self, run, df, df_benchmark, calls, merged, ret, returned,
                   indVars>>

\* col.startswith("benchmark_")
IsBenchmarkColumn(name) == Head(name) = "benchmark_"

\* df_benchmark[[col for col in df_benchmark.columns if col.startswith(...)]]
SelectBenchmark(t) ==
    LET keep == SelectSeq([j \in 1..Len(t.cols) |-> j],
                          LAMBDA j : IsBenchmarkColumn(t.cols[j]))
    IN  [idx |-> t.idx,
         cols |-> [p \in 1..Len(keep) |-> t.cols[keep[p]]],
         val |-> [p \in 1..Len(keep) |-> t.val[keep[p]]]]

\* An inner join: only the left rows whose timestamp the right side has.
MergeInner(left, right) ==
    LET keep == SelectSeq([p \in 1..Len(left.idx) |-> p],
                          LAMBDA p : left.idx[p] \in Range(right.idx))
        at(ts) == CHOOSE q \in 1..Len(right.idx) : right.idx[q] = ts
    IN  [idx |-> [p \in 1..Len(keep) |-> left.idx[keep[p]]],
         cols |-> left.cols \o right.cols,
         val |-> [j \in 1..Len(left.cols) |->
                     [p \in 1..Len(keep) |-> left.val[j][keep[p]]]]
                 \o [j \in 1..Len(right.cols) |->
                        [p \in 1..Len(keep) |->
                            right.val[j][at(left.idx[keep[p]])]]]]

\* left.merge(right, how="left", left_index=True, right_index=True): the
\* left rows in the left order; a right column holds the right row of the
\* same timestamp, NaN where there is none; a column name both sides carry
\* gets the suffix _x on the left and _y on the right.
MergeLeft(left, right) ==
    LET both == Range(left.cols) \cap Range(right.cols)
        lname(c) == IF c \in both THEN Append(c, "_x") ELSE c
        rname(c) == IF c \in both THEN Append(c, "_y") ELSE c
        at(ts) == CHOOSE q \in 1..Len(right.idx) : right.idx[q] = ts
        rcol(s) == [p \in 1..Len(left.idx) |->
                       IF left.idx[p] \in Range(right.idx)
                       THEN s[at(left.idx[p])] ELSE NaN]
    IN  [idx |-> left.idx,
         cols |-> [j \in 1..Len(left.cols) |-> lname(left.cols[j])]
                  \o [j \in 1..Len(right.cols) |-> rname(right.cols[j])],
         val |-> left.val \o [j \in 1..Len(right.cols) |-> rcol(right.val[j])]]

\* A join that writes its result into the left object instead of a new one.
MergeInPlace ==
    /\ pc = "merge"
    /\ LET m == MergeLeft(heap[df], SelectBenchmark(heap[df_benchmark]))
       IN  /\ heap' = [heap EXCEPT ![df] = m]
           /\ merged' = m
    /\ pc' = "clean"
    /\ steps' = Append(steps, "merge")
    /\ UNCHANGED <<provider, self, run, df, df_benchmark, calls, ret, returned, indVars>>

\* df = df.merge(...): the result is a new object.
Merge ==
    /\ pc = "merge"
    /\ LET m == MergeLeft(heap[df], SelectBenchmark(heap[df_benchmark]))
       IN  /\ heap' = Append(heap, m)
           /\ merged' = m
    /\ df' = Len(heap) + 1
    /\ pc' = "clean"
    /\ steps' = Append(steps, "merge")
    /\ UNCHANGED <<provider, self, run, df_benchmark, calls, ret, returned, indVars>>

\* df.interpolate(method="linear", limit_direction="both", inplace=True)
InterpolateTable(t) ==
    [t EXCEPT !.val = [j \in 1..Len(t.cols) |-> Interpolate(t.val[j])]]

\* df.replace([np.inf, -np.inf], np.nan, inplace=True)
ReplaceInfTable(t) ==
    [t EXCEPT !.val = [j \in 1..Len(t.cols) |-> ReplaceInf(t.val[j])]]

\* df.dropna(inplace=True): the rows with no NaN cell.
DropNa(t) ==
    TakeRows(t, SelectSeq([p \in 1..NRows(t) |-> p],
                          LAMBDA p : \A j \in 1..Len(t.cols) : ~IsNaN(t.val[j][p])))

\* Cleaning without the replace([inf, -inf], nan) call.
CleanKeepsInf(t) == DropNa(InterpolateTable(t))

\* The three cleaning calls of load().
CleanTable(t) == DropNa(ReplaceInfTable(InterpolateTable(t)))

\* An end of load() that raises when the cleaned table has no rows.
FinishRaisesOnEmpty ==
    IF NRows(heap'[df]) = 0
    THEN pc' = "raised" /\ ret' = ret /\ returned' = returned
    ELSE /\ ret' = Append(ret, df)
         /\ returned' = Append(returned, heap'[df])
         /\ pc' = "done"

\* The end of load(): what it does with the cleaned table.
Finish ==
    /\ ret' = Append(ret, df)
    /\ returned' = Append(returned, heap'[df])
    /\ pc' = "done"

\* interpolate, replace, dropna, return df
Clean ==
    /\ pc = "clean"
    /\ heap' = [heap EXCEPT ![df] = CleanTable(@)]
    /\ Finish
    /\ steps' = Append(steps, "clean")
    /\ UNCHANGED <<provider, self, run, df, df_benchmark, calls, merged,
                   indVars>>

\* ---------------------------------------------------------------- indicators

\* Parameters the stages are constructed with.
VolatilityTimeframes == <<2, 5>>
RSIWindow == 5
BollingerWindow == 2

volatility_(i) == <<"volatility_", ToString(i)>>
macd_line == <<"macd_line">>
macd_signal_line == <<"macd_signal_line">>
macd_histogram == <<"macd_histogram">>
rsi == <<"rsi">>
bollinger_mid == <<"bollinger_mid">>
bollinger_lower == <<"bollinger_lower">>
bollinger_upper == <<"bollinger_upper">>

Stages == {"Volatility", "MACD", "RSI", "BollingerBands"}

\* s.ewm(alpha, adjust=False).mean(): y[1] = s[1],
\* y[i] = (1 - alpha) * y[i-1] + alpha * s[i].
EwmRecursive(s, alpha) ==
    LET y[i \in 1..Len(s)] ==
            IF i = 1 THEN s[1]
            ELSE Add(Mul(Sub(One, alpha), y[i - 1]), Mul(alpha, s[i]))
    IN  [i \in 1..Len(s) |-> y[i]]

\* s.ewm(alpha).mean() with the default adjust=True: the weighted average of
\* the whole history with weights (1 - alpha)^k.
EwmAdjusted(s, alpha) ==
    LET num[i \in 1..Len(s)] ==
            IF i = 1 THEN s[1] ELSE Add(s[i], Mul(Sub(One, alpha), num[i - 1]))
        den[i \in 1..Len(s)] ==
            IF i = 1 THEN One ELSE Add(One, Mul(Sub(One, alpha), den[i - 1]))
    IN  [i \in 1..Len(s) |-> Div(num[i], den[i])]

\* ewm(span=n): alpha = 2 / (n + 1);  ewm(com): alpha = 1 / (1 + com).
AlphaOfSpan(n) == Rat(2, n + 1)
AlphaOfCom(c) == Rat(1, 1 + c)

RECURSIVE SumCells(_, _)
SumCells(s, i) == IF i = 0 THEN Zero ELSE Add(SumCells(s, i - 1), s[i])

\* The sample variance (ddof = 1) of the cells of w; 0/0 = NaN for one cell.
SampleVar(w) ==
    LET mean == Div(SumCells(w, Len(w)), Int2Cell(Len(w)))
        sq == [i \in 1..Len(w) |-> Mul(Sub(w[i], mean), Sub(w[i], mean))]
    IN  Div(SumCells(sq, Len(w)), Int2Cell(Len(w) - 1))

\* sqrt of a cell: exact for 0, a term otherwise.
Sqrt(v) ==
    IF ~IsRat(v) \/ v.n < 0 THEN NaN
    ELSE IF v.n = 0 THEN Zero
    ELSE [k |-> "plusrt", n |-> 0, d |-> 1, a |-> <<v>>]

\* s.rolling(w).std(): NaN until the window holds w rows, and where a cell
\* of the window is not a finite number.
RollingStd(s, w) ==
    [i \in 1..Len(s) |->
        IF i < w \/ \E j \in (i - w + 1)..i : ~IsRat(s[j]) THEN NaN
        ELSE Sqrt(SampleVar([j \in 1..w |-> s[i - w + j]]))]

\* np.log1p(s).rolling(w).std(): the standard deviation of log1p over the
\* window (log1p needs s > -1): 0 for a constant window, a term of the
\* window's cells otherwise.
RollingStdLog1p(s, w) ==
    [i \in 1..Len(s) |->
        IF \/ i < w \/ w < 2
           \/ \E j \in (i - w + 1)..i :
                  ~IsRat(s[j]) \/ ~GtZero(Add(s[j], One))
        THEN NaN
        ELSE IF \A j \in (i - w + 1)..i : s[j] = s[i] THEN Zero
        ELSE [k |-> "stdlog", n |-> 0, d |-> 1,
              a |-> [j \in 1..w |-> s[i - w + j]]]]

\* mid + sign * 2 * std for a standard deviation that may be a sqrt term.
Band(mid, std, sign) ==
    IF IsNaN(mid) \/ IsNaN(std) THEN NaN
    ELSE IF IsRat(std) THEN Add(mid, Mul(Int2Cell(2 * sign), std))
    ELSE [k |-> IF sign > 0 THEN "plusrt" ELSE "minusrt",
          n |-> mid.n, d |-> mid.d, a |-> <<Mul(Int2Cell(4), std.a[1])>>]

RECURSIVE VolatilityLoop(_, _, _)
VolatilityLoop(t, tf, k) ==
    IF k > Len(tf) THEN t
    ELSE VolatilityLoop(
             SetColumn(t, volatility_(tf[k]),
                       RollingStdLog1p(Column(t, return_(1)), tf[k])),
             tf, k + 1)

\* VolatilityIndicator.apply on the prepared table.
VolatilityApply(t) == VolatilityLoop(t, VolatilityTimeframes, 1)

\* MACDIndicator.apply on the prepared table.
MACDApply(t) ==
    LET close == Column(t, Close)
        ema_12 == EwmRecursive(close, AlphaOfSpan(12))
        ema_26 == EwmRecursive(close, AlphaOfSpan(26))
        line == [i \in 1..Len(close) |-> Sub(ema_12[i], ema_26[i])]
        signal_line == EwmRecursive(line, AlphaOfSpan(9))
        t1 == SetColumn(t, macd_line, line)
        t2 == SetColumn(t1, macd_signal_line, signal_line)
    IN  SetColumn(t2, macd_histogram,
                  [i \in 1..Len(close) |-> Sub(line[i], signal_line[i])])

\* df_["return_1"].where(df_["return_1"] > 0, 0).ewm(self.window).mean()
PosGain(t) ==
    LET r == Column(t, return_(1))
    IN  EwmAdjusted([i \in 1..Len(r) |-> IF GtZero(r[i]) THEN r[i] ELSE Zero],
                    AlphaOfCom(RSIWindow))

\* df_["return_1"].where(df_["return_1"] < 0, 0).ewm(self.window).mean()
NegGain(t) ==
    LET r == Column(t, return_(1))
    IN  EwmAdjusted([i \in 1..Len(r) |-> IF LtZero(r[i]) THEN r[i] ELSE Zero],
                    AlphaOfCom(RSIWindow))

\* rs = np.abs(pos_gain / neg_gain)
RS(t) ==
    LET pos_gain == PosGain(t)
        neg_gain == NegGain(t)
    IN  [i \in 1..NRows(t) |-> Abs(Div(pos_gain[i], neg_gain[i]))]

\* RSIIndicator.apply on the prepared table: rsi = 100 * rs / (1 + rs).
RSIApply(t) ==
    LET rs == RS(t)
    IN  SetColumn(t, rsi,
                  [i \in 1..NRows(t) |->
                      Div(Mul(Int2Cell(100), rs[i]), Add(One, rs[i]))])

\* A Bollinger stage that also smooths Close in place (writes a column the
\* other stages read).
BollingerSmoothsClose(t) ==
    LET close == Column(t, Close)
        mid == EwmAdjusted(close, AlphaOfSpan(BollingerWindow))
        std == RollingStd(close, BollingerWindow)
        t1 == SetColumn(SetColumn(t, Close, mid), bollinger_mid, mid)
        t2 == SetColumn(t1, bollinger_lower,
                        [i \in 1..Len(close) |-> Band(mid[i], std[i], -1)])
    IN  SetColumn(t2, bollinger_upper,
                  [i \in 1..Len(close) |-> Band(mid[i], std[i], 1)])

\* BollingerBandsIndicator.apply on the prepared table.
BollingerApply(t) ==
    LET close == Column(t, Close)
        mid == EwmAdjusted(close, AlphaOfSpan(BollingerWindow))
        std == RollingStd(close, BollingerWindow)
        t1 == SetColumn(t, bollinger_mid, mid)
        t2 == SetColumn(t1, bollinger_lower,
                        [i \in 1..Len(close) |-> Band(mid[i], std[i], -1)])
    IN  SetColumn(t2, bollinger_upper,
                  [i \in 1..Len(close) |-> Band(mid[i], std[i], 1)])

\* What a stage computes on the table _prepare_df hands it.
StageApply(stage, t) ==
    CASE stage = "Volatility" -> VolatilityApply(t)
      [] stage = "MACD" -> MACDApply(t)
      [] stage = "RSI" -> RSIApply(t)
      [] stage = "BollingerBands" -> BollingerApply(t)

\* The columns a stage writes.
StageColumns(stage) ==
    CASE stage = "Volatility" ->
             {volatility_(VolatilityTimeframes[k]) :
                 k \in 1..Len(VolatilityTimeframes)}
      [] stage = "MACD" -> {macd_line, macd_signal_line, macd_histogram}
      [] stage = "RSI" -> {rsi}
      [] stage = "BollingerBands" ->
             {bollinger_mid, bollinger_lower, bollinger_upper}

\* A _prepare_df that never copies.
PrepareDfAlias(h, id, in_place) == [heap |-> h, id |-> id]

\* BaseIndicator._prepare_df: df itself when in_place, df.copy() (a new
\* object with the same contents) otherwise.  Gives the heap and the object.
PrepareDf(h, id, in_place) ==
    IF in_place THEN [heap |-> h, id |-> id]
    ELSE [heap |-> Append(h, h[id]), id |-> Len(h) + 1]

\* stage(in_place).apply(df) for a table df that has the columns it reads.
Apply(stage, in_place, arg) ==
    /\ Len(applied) < MaxApply
    /\ HasColumn(heap[arg], Close)
    /\ HasColumn(heap[arg], return_(1))
    /\ LET p == PrepareDf(heap, arg, in_place)
       IN  /\ heap' = [p.heap EXCEPT ![p.id] = StageApply(stage, @)]
           /\ applied' = Append(applied, [stage |-> stage, in_place |-> in_place,
                                          arg |-> arg, res |-> p.id])
    /\ before' = heap[arg]
    /\ UNCHANGED loaderVars

\* The table load() produces from the asset table a, the benchmark table b
\* and the horizons tf (the steps of load() on separate objects).
LoadTable(a, b, tf) ==
    LET h1 == [<<a, b>> EXCEPT ![1] = SetColumn(@, forward_return, ForwardReturn(@))]
        h2 == FeatureLoop(h1, 1, 2, tf, 1)
    IN  CleanTable(MergeLeft(h2[1], SelectBenchmark(h2[2])))

\* Tables the stages are applied to: what load() returns for an asset of
\* 2..MaxLen bars that is its own benchmark, with horizon 1.
IndicatorInputs ==
    {LoadTable(OHLCV([p \in 1..n |-> p], pp, "constant"),
               OHLCV([p \in 1..n |-> p], pp, "constant"), <<1>>) :
        n \in 2..MaxLen, pp \in PricePaths}

InitIndicators ==
    /\ \E t \in IndicatorInputs :
          /\ heap = <<t>>
          /\ provider = [mode |-> "fresh", data |-> [s \in Symbols |-> NoTable],
                         cache |-> [s \in Symbols |-> 0]]
    /\ self = [asset |-> "AST", benchmark_asset |-> "BMK", timeframes |-> <<1>>]
    /\ pc = "idle"
    /\ run = 0
    /\ df = 0
    /\ df_benchmark = 0
    /\ calls = <<>>
    /\ steps = <<>>
    /\ merged = NoTable
    /\ ret = <<>>
    /\ returned = <<>>
    /\ applied = <<>>
    /\ before = NoTable

\* The caller applies a stage to the input table or to the last result.
NextIndicators ==
    \E stage \in Stages, in_place \in BOOLEAN,
       arg \in {1} \cup {applied[k].res : k \in {Len(applied)} \ {0}} :
        Apply(stage, in_place, arg)

SpecIndicators == InitIndicators /\ [][NextIndicators]_vars

Next ==
    \/ Load
    \/ DownloadAsset
    \/ DownloadBenchmark
    \/ DeriveTarget
    \/ DeriveFeatures
    \/ Merge
    \/ Clean

Spec == Init /\ [][Next]_vars

\* ------------------------------------------------------------------ claims

PosIn(seq, x) == CHOOSE q \in 1..Len(seq) : seq[q] = x
MaxOf(seq) == CHOOSE m \in Range(seq) : \A x \in Range(seq) : x <= m
AllOk == \A k \in 1..Len(calls) : calls[k].ok

\* Same index, same column set, same cells (the column order may differ).
SameTable(x, y) ==
    /\ x.idx = y.idx
    /\ Range(x.cols) = Range(y.cols)
    /\ \A c \in Range(x.cols) : Column(x, c) = Column(y, c)

HasInfRow(t, p) == \E j \in 1..Len(t.cols) : IsInf(t.val[j][p])

\* C1: every table load() returned has no NaN and no +/-infinity cell, and a
\* row that held an infinite cell before cleaning is not among its rows.
C1_NoNaNNoInf ==
    /\ \A r \in 1..Len(ret) :
          \A j \in 1..Len(heap[ret[r]].cols) : \A p \in 1..NRows(heap[ret[r]]) :
              IsFinite(heap[ret[r]].val[j][p])
    /\ pc = "done" =>
          \A p \in 1..NRows(merged) :
              HasInfRow(merged, p) => merged.idx[p] \notin Range(heap[ret[run]].idx)

\* A load() whose merged table had an infinite cell in some row and that
\* still returned rows.
C1_Witness ==
    /\ pc = "done"
    /\ \E p \in 1..NRows(merged) : HasInfRow(merged, p)
    /\ NRows(heap[ret[run]]) > 0

C3_Columns(tf) ==
    {Open, High, Low, Close, Volume, forward_return}
        \cup UNION {{return_(tf[k]), volume_(tf[k]), benchmark_return_(tf[k]),
                     benchmark_volume_(tf[k])} : k \in 1..Len(tf)}

C3_ColumnsAliased(tf) ==
    {Open, High, Low, Close, Volume, forward_return}
        \cup UNION {{return_(tf[k]), volume_(tf[k]),
                     Append(benchmark_return_(tf[k]), "_x"),
                     Append(benchmark_return_(tf[k]), "_y"),
                     Append(benchmark_volume_(tf[k]), "_x"),
                     Append(benchmark_volume_(tf[k]), "_y")} : k \in 1..Len(tf)}

C4_RSISaturates ==
    \A o \in 1..Len(heap) :
        HasColumn(heap[o], rsi) =>
            \A p \in 1..NRows(heap[o]) :
                (NegGain(heap[o])[p] = Zero /\ PosGain(heap[o])[p] # Zero)
                    => /\ RS(heap[o])[p] = PInf
                       /\ Column(heap[o], rsi)[p] = Int2Cell(100)

C6_CopyOrInPlace ==
    Len(applied) > 0 =>
        LET e == applied[Len(applied)]
            r == heap[e.res]
        IN  /\ StageColumns(e.stage) \subseteq Range(r.cols)
            /\ r.idx = before.idx
            /\ \A c \in Range(before.cols) :
                  HasColumn(r, c) /\ Column(r, c) = Column(before, c)
            /\ e.in_place => e.res = e.arg
            /\ ~e.in_place => e.res # e.arg /\ heap[e.arg] = before

\* A copying application whose result differs from its untouched argument.
C6_Witness ==
    /\ Len(applied) > 0
    /\ ~applied[Len(applied)].in_place
    /\ heap[applied[Len(applied)].res] # heap[applied[Len(applied)].arg]
    /\ heap[applied[Len(applied)].arg] = before

\* The six pairs of distinct stages.
StagePairs ==
    {<<"Volatility", "MACD">>, <<"Volatility", "RSI">>,
     <<"Volatility", "BollingerBands">>, <<"MACD", "RSI">>,
     <<"MACD", "BollingerBands">>, <<"RSI", "BollingerBands">>}

\* C7: on every table with Close and return_1 (the input table and every
\* table a stage produced), any two distinct stages give the same columns
\* and cells in either order; the columns two stages write are disjoint,
\* no stage writes Close or return_1, and a stage changes no other column;
\* and a table on which two distinct stages were applied in turn equals that
\* of the other order.
C7_StagesCommute ==
    /\ LET t == IF applied = <<>> THEN heap[1]
                ELSE heap[applied[Len(applied)].res]
       IN  (HasColumn(t, Close) /\ HasColumn(t, return_(1))) =>
               /\ \A pair \in StagePairs :
                      /\ SameTable(StageApply(pair[2], StageApply(pair[1], t)),
                                   StageApply(pair[1], StageApply(pair[2], t)))
                      /\ StageColumns(pair[1]) \cap StageColumns(pair[2]) = {}
               /\ \A A \in Stages :
                      /\ StageColumns(A) \cap {Close, return_(1)} = {}
                      /\ Range(StageApply(A, t).cols)
                           = Range(t.cols) \cup StageColumns(A)
                      /\ \A c \in Range(t.cols) \ StageColumns(A) :
                             Column(StageApply(A, t), c) = Column(t, c)
    /\ (/\ Len(applied) = 2
        /\ applied[2].arg = applied[1].res
        /\ ~applied[1].in_place)
       => SameTable(heap[applied[2].res],
                    StageApply(applied[1].stage,
                               StageApply(applied[2].stage,
                                          heap[applied[1].arg])))

\* Two distinct stages applied in turn, the first on a copy.
C7_Witness ==
    /\ Len(applied) = 2
    /\ applied[2].arg = applied[1].res
    /\ ~applied[1].in_place
    /\ applied[1].stage # applied[2].stage
    /\ heap[applied[2].res].cols
         # StageApply(applied[1].stage,
                      StageApply(applied[2].stage, heap[applied[1].arg])).cols

\* C8 (as claimed): load() never returns a table without rows.
C8_EmptyResultRaised ==
    pc = "done" => NRows(heap[ret[run]]) > 0

\* C8 (amended): load() raises only when a download failed; when cleaning
\* removes every row it returns the table, with all its columns and no row.
C8_EmptyTableReturned ==
    /\ pc = "raised" => ~calls[Len(calls)].ok
    /\ (pc = "done" /\ NRows(CleanTable(merged)) = 0) =>
          /\ Len(ret) = run
          /\ NRows(heap[ret[run]]) = 0
          /\ heap[ret[run]].cols = merged.cols

\* A load() whose merged table had rows and whose result has none.
C8_Witness ==
    /\ pc = "done"
    /\ NRows(merged) > 0
    /\ NRows(heap[ret[run]]) = 0

\* C9: all tables load() returned on one configuration are equal, each
\* taken as it was when returned: same timestamps, same columns in the same
\* order, same cells; and a later load() leaves an earlier result as it was.
C9_Idempotent ==
    /\ \A r1 \in 1..Len(returned), r2 \in 1..Len(returned) :
          returned[r1] = returned[r2]
    /\ \A r \in 1..Len(ret) : heap[ret[r]] = returned[r]

\* Two loads with the stub handing back the same object for the asset and
\* the benchmark, with rows in the result.
C9_Witness ==
    /\ Len(ret) >= 2
    /\ provider.mode = "cached"
    /\ self.benchmark_asset = self.asset
    /\ ret[1] # ret[2]
    /\ NRows(heap[ret[2]]) > 0
    /\ Len(heap[provider.cache[self.asset]].cols) > 5

\* C10: one load() downloads the asset, then the benchmark, each at most
\* once, and runs its statements once in order; after a failed download no
\* further statement runs and no table is returned.
C10_SinglePass ==
    /\ Len(calls) <= 2
    /\ Len(calls) >= 1 => calls[1].symbol = self.asset
    /\ Len(calls) = 2 => calls[1].ok /\ calls[2].symbol = self.benchmark_asset
    /\ \E n \in 0..6 :
          steps = SubSeq(<<"download_asset", "download_benchmark", "target",
                           "features", "merge", "clean">>, 1, n)
    /\ Len(steps) > 2 => Len(calls) = 2 /\ AllOk
    /\ ~AllOk =>
          /\ pc = "raised"
          /\ Len(steps) = Len(calls)
          /\ merged = NoTable
          /\ Len(ret) = run - 1
    /\ pc = "raised" => ~AllOk

\* The benchmark download fails after the asset download succeeded.
C10_Witness ==
    /\ pc = "raised"
    /\ Len(calls) = 2
    /\ calls[1].ok
    /\ ~calls[2].ok

====
